---- MODULE Spec2Model ----
(***************************************************************************)
(* Model of the multi-agent job search workflow (src/graph.py,             *)
(* src/agents.py, src/main.py): a five-node graph compiled with an         *)
(* in-memory checkpointer, executed one node at a time per thread id,      *)
(* suspended by interrupt() in the human selection node and continued by   *)
(* Command(resume=...).                                                    *)
(*                                                                         *)
(* A workflow state (the State TypedDict, total=False) is a function from  *)
(* the subset of field names that are present to their values.  A job is   *)
(* a function from the subset of its keys that are present to their        *)
(* values; a description is represented by its length, the only thing the  *)
(* code reads of it.                                                       *)
(***************************************************************************)
EXTENDS Integers, Sequences, FiniteSets, TLC

\* ------------------------------------------------------------------ bounds
MaxInvokes == 2     \* fresh invoke(initial_state) calls per thread id
MaxRanked == 3      \* length of the short lists a screen provider returns
MaxResume == 2      \* length of the resume lists a caller supplies

\* ------------------------------------------------------- program constants
EnrichThreshold == 12
ScreenCap == 10
SelectCap == 2
LongDesc == 50

\* ------------------------------------------------------------- dict helpers
None == "<None>"

Has(s, k) == k \in DOMAIN s

Get(s, k, d) == IF k \in DOMAIN s THEN s[k] ELSE d

\* {**s, k1: v1, ...}
Merge(s, upd) ==
    [k \in DOMAIN s \cup DOMAIN upd |-> IF k \in DOMAIN upd THEN upd[k] ELSE s[k]]

TakeAll(xs, n) == xs

\* xs[:n]
Take(xs, n) == SubSeq(xs, 1, IF Len(xs) < n THEN Len(xs) ELSE n)

SeqsUpTo(S, n) == UNION {[1..k -> S] : k \in 0..n}

\* the empty dict
Empty == [k \in {} |-> None]

\* ----------------------------------------------------------------- threads
AllRunIds == {"A", "B"}
RunIds == {"A"}

Nodes == {"search_agent", "enrich_node", "screen_agent",
          "human_select_interrupt", "tailor_agent"}
END == "__end__"

\* -------------------------------------------------------------------- jobs
JobA == [id |-> "a", description |-> 20]
JobB == [id |-> "b"]
JobU == {JobA, JobB}

\* a provider answer of n jobs, with descriptions on both sides of LongDesc;
\* the first job has no description
Many(n) ==
    [i \in 1..n |-> IF i = 1 THEN [id |-> "m1"]
                    ELSE [id |-> "m" \o ToString(i), description |-> 40 + i]]

\* ------------------------------------------------------ capability providers
\* What a provider call hands back to its caller: it raises, or the array
\* that extract_agent_results recovers from its final message ([] when the
\* text holds no parseable array).
Raise == [kind |-> "raise"]
Answer(xs) == [kind |-> "ok", items |-> xs]

SearchAnswers ==
    {Raise} \cup {Answer(xs) : xs \in {<<>>, <<JobA>>, Many(EnrichThreshold),
                                        Many(EnrichThreshold + 1)}}

ScreenAnswers ==
    {Raise} \cup {Answer(xs) : xs \in SeqsUpTo(JobU, MaxRanked)
                                        \cup {Many(ScreenCap + 1)}}

\* items of the tailor agent's array: an {id, preview} object, null, or a
\* value that is no object
TailorItem == [id |-> "a", preview |-> "p"]
Null == [null |-> TRUE]
Scalar == [scalar |-> TRUE]
TailorAnswers ==
    {Raise} \cup {Answer(xs) : xs \in {<<>>, <<TailorItem>>, <<Null>>, <<Scalar>>,
                                        <<TailorItem, Scalar>>}}

\* ------------------------------------------------------------ caller inputs
Locations == {None, "San Francisco"}

BaseState(loc) ==
    [seed_terms |-> <<"python", "ml">>, location |-> loc, resume_pdf_path |-> "cv.pdf"]

\* initial states: the three fields main.py passes, optionally with a
\* selected_jobs field already set (State is total=False: any field may come in)
InitialStates ==
    {BaseState(loc) : loc \in Locations}
      \cup {Merge(BaseState(None), [selected_jobs |-> <<JobA, JobB, JobA>>])}

\* resume values: not a list at all, or a list of strings, dicts and other values
Str(x) == [t |-> "str", v |-> x]
Dict(j) == [t |-> "dict", v |-> j]
Other == [t |-> "other", v |-> [raw |-> "other"]]
ResumeElems == {Str("a"), Str("b"), Str("zz"), Dict(JobB), Other}
NotAList == [given |-> TRUE, isList |-> FALSE, items |-> <<>>]
ListOf(xs) == [given |-> TRUE, isList |-> TRUE, items |-> xs]
NoResume == [given |-> FALSE, isList |-> FALSE, items |-> <<>>]
ThreeObjects == ListOf(<<Dict(JobB), Dict(JobA), Dict(JobB)>>)
ResumeValues ==
    {NotAList, ThreeObjects} \cup {ListOf(xs) : xs \in SeqsUpTo(ResumeElems, MaxResume)}

\* ---------------------------------------------------------------- extractor
\* A provider text is a sequence of tokens: "[", "]", ",", a number "1", a
\* prose word "p", the word "json", white space " ", the fence "F" (three
\* backticks) and Deep, a run of "[" longer than the interpreter's recursion
\* limit.
MaxText == 4

Deep == "[[[..."

Tokens == {"[", "]", ",", "1", "p", "json", " ", "F", Deep}

\* \[ matches at the first character of these tokens
Open == {"[", Deep}

\* longer texts: fenced with a language tag, nested arrays, two arrays
SampleTexts ==
    { <<"p", "F", "json", " ", "[", "1", ",", "1", "]", " ", "F", "p">>,
      <<"F", "json", " ", "[", "[", "1", "]", ",", "[", "1", "]", "]", " ", "F">>,
      <<"p", "[", "[", "1", "]", ",", "[", "1", "]", "]", "p">>,
      <<"[", "1", "]", "p", "[", "1", ",", "1", "]">>,
      <<"[", "p", "]", "F", "[", "1", "]", "F">>,
      <<"F", "[", "p", "]", "F", "[", "1", "]">>,
      <<"[", "1", ",", Deep, "]">> }

Texts == SeqsUpTo(Tokens, MaxText) \cup SampleTexts

\* parsed JSON values
Num == [k |-> "num", items |-> <<>>]
Arr(xs) == [k |-> "arr", items |-> xs]

\* outcomes of the parser: a value and the position after it, a
\* json.JSONDecodeError, or a RecursionError
Ok(v, next) == [st |-> "ok", v |-> v, next |-> next]
Bad == [st |-> "bad", v |-> Num, next |-> 0]
TooDeep == [st |-> "deep", v |-> Num, next |-> 0]

RECURSIVE SkipWs(_, _)
SkipWs(ts, i) == IF i <= Len(ts) /\ ts[i] = " " THEN SkipWs(ts, i + 1) ELSE i

\* adjacent digits are one number literal
RECURSIVE SkipNum(_, _)
SkipNum(ts, i) == IF i <= Len(ts) /\ ts[i] = "1" THEN SkipNum(ts, i + 1) ELSE i

\* the JSON scanner: ParseValue reads one value at i, ParseRest the elements
\* of an array up to its closing bracket
RECURSIVE ParseValue(_, _), ParseRest(_, _, _)
ParseValue(ts, i) ==
    IF i > Len(ts) THEN Bad
    ELSE IF ts[i] = "1" THEN Ok(Num, SkipNum(ts, i))
    ELSE IF ts[i] = Deep THEN TooDeep
    ELSE IF ts[i] = "["
         THEN LET j == SkipWs(ts, i + 1)
              IN  IF j <= Len(ts) /\ ts[j] = "]" THEN Ok(Arr(<<>>), j + 1)
                  ELSE ParseRest(ts, j, <<>>)
    ELSE Bad

ParseRest(ts, i, acc) ==
    LET r == ParseValue(ts, i)
        j == SkipWs(ts, r.next)
    IN  IF r.st # "ok" THEN r
        ELSE IF j > Len(ts) THEN Bad
        ELSE IF ts[j] = "]" THEN Ok(Arr(Append(acc, r.v)), j + 1)
        ELSE IF ts[j] = "," THEN ParseRest(ts, SkipWs(ts, j + 1), Append(acc, r.v))
        ELSE Bad

\* json.loads: one value, white space around it, nothing after it
json_loads(ts) ==
    LET r == ParseValue(ts, SkipWs(ts, 1))
    IN  IF r.st = "ok" /\ SkipWs(ts, r.next) <= Len(ts) THEN Bad ELSE r

\* \s*``` at position i
FenceCloses(ts, i) == LET j == SkipWs(ts, i) IN j <= Len(ts) /\ ts[j] = "F"

\* ```(?:json)?\s*(\[.*?\])\s*``` tried at the fence at position i: the group
\* starts at the bracket after the optional tag and white space, and ends at
\* the first "]" that is followed by white space and a fence
FencedStart(ts, i) ==
    SkipWs(ts, IF i + 1 <= Len(ts) /\ ts[i + 1] = "json" THEN i + 2 ELSE i + 1)

FencedEnds(ts, i) ==
    LET a == FencedStart(ts, i)
    IN  IF ts[i] = "F" /\ a <= Len(ts) /\ ts[a] \in Open
        THEN {k \in a + 1..Len(ts) : ts[k] = "]" /\ FenceCloses(ts, k + 1)}
        ELSE {}

Min(S) == CHOOSE x \in S : \A y \in S : x <= y

\* re.search: the leftmost position where the pattern matches
FencedMatches(ts) == {i \in 1..Len(ts) : FencedEnds(ts, i) # {}}

FencedGroup(ts) ==
    LET i == Min(FencedMatches(ts))
    IN  SubSeq(ts, FencedStart(ts, i), Min(FencedEnds(ts, i)))

\* \[.*?\] : from the leftmost bracket that has a "]" after it to the first
\* "]" after it
BareEnds(ts, i) == IF ts[i] \in Open THEN {k \in i + 1..Len(ts) : ts[k] = "]"} ELSE {}

BareMatches(ts) == {i \in 1..Len(ts) : BareEnds(ts, i) # {}}

BareGroup(ts) ==
    LET i == Min(BareMatches(ts))
    IN  SubSeq(ts, i, Min(BareEnds(ts, i)))

HasCandidate(ts) == FencedMatches(ts) # {} \/ BareMatches(ts) # {}

Candidate(ts) == IF FencedMatches(ts) # {} THEN FencedGroup(ts) ELSE BareGroup(ts)

\* what a call gives its caller: a list, or an exception
Returned(xs) == [raised |-> FALSE, items |-> xs]
Raised == [raised |-> TRUE, items |-> <<>>]

\* only json.JSONDecodeError is caught
extract_json_from_markdown(ts) ==
    IF ~HasCandidate(ts) THEN Returned(<<>>)
    ELSE LET r == json_loads(Candidate(ts))
         IN  IF r.st = "ok" THEN Returned(r.v.items)
             ELSE IF r.st = "bad" THEN Returned(<<>>)
             ELSE Raised

\* the agent's final message is a text: the call is inside try/except Exception
extract_agent_results(ts) ==
    LET r == extract_json_from_markdown(ts)
    IN  IF r.raised THEN Returned(<<>>) ELSE r

\* ------------------------------------------------------------------- agents
\* invoke_search: the executor call is not guarded; its answer is a list
invoke_search(answer) == answer.items

\* invoke_screen: no provider call for an empty job list
invoke_screen(jobs, answer) == IF jobs = <<>> THEN <<>> ELSE answer.items

ScreenCalls(jobs) == jobs # <<>>

\* ------------------------------------------------------------- graph nodes
FallbackJobs(location) ==
    LET loc == IF location \in {None, ""} THEN "Remote" ELSE location
    IN  << [id |-> "stub_li_0", source |-> "linkedin", title |-> "Python Engineer",
            company |-> "EnterpriseCo", location |-> loc, description |-> 60],
           [id |-> "stub_li_1", source |-> "linkedin", title |-> "Backend Engineer",
            company |-> "ScaleUp", location |-> loc, description |-> 61],
           [id |-> "stub_yc_0", source |-> "ycombinator", title |-> "Python Engineer",
            company |-> "StartupCo", location |-> loc, description |-> 59] >>

n_search_at_threshold(s, found) ==
    LET jobs == IF found = <<>> THEN FallbackJobs(Get(s, "location", None)) ELSE found
    IN  Merge(s, [jobs |-> jobs, needs_enrichment |-> Len(jobs) >= EnrichThreshold])

n_search(s, found) ==
    LET jobs == IF found = <<>> THEN FallbackJobs(Get(s, "location", None)) ELSE found
    IN  Merge(s, [jobs |-> jobs, needs_enrichment |-> Len(jobs) > EnrichThreshold])

enriched_tag_at_threshold(j) ==
    IF Get(j, "description", 0) >= LongDesc THEN "long-desc" ELSE "short-desc"

enriched_tag(j) ==
    IF Get(j, "description", 0) > LongDesc THEN "long-desc" ELSE "short-desc"

n_enrich(s) ==
    LET jobs == Get(s, "jobs", <<>>)
    IN  Merge(s, [enriched_jobs |->
                    [i \in 1..Len(jobs) |-> Merge(jobs[i], [enriched_tag |-> enriched_tag(jobs[i])])]])

\* s.get("enriched_jobs") or s.get("jobs", [])
base_jobs(s) ==
    IF Has(s, "enriched_jobs") /\ s["enriched_jobs"] # <<>>
    THEN s["enriched_jobs"] ELSE Get(s, "jobs", <<>>)

n_screen_uncapped(s, ranked) ==
    Merge(s, [ranked_jobs |-> ranked, shortlisted_jobs |-> Take(ranked, ScreenCap)])

n_screen(s, ranked) ==
    Merge(s, [ranked_jobs |-> Take(ranked, ScreenCap),
              shortlisted_jobs |-> Take(ranked, ScreenCap)])

route_from_search(s) ==
    IF Get(s, "needs_enrichment", FALSE) THEN "enrich_node" ELSE "screen_agent"

NextNodeSkipsSelect(node) ==
    CASE node = "enrich_node" -> "screen_agent"
      [] node = "screen_agent" -> "tailor_agent"
      [] node = "human_select_interrupt" -> "tailor_agent"
      [] node = "tailor_agent" -> END

\* the unconditional edges
NextNode(node) ==
    CASE node = "enrich_node" -> "screen_agent"
      [] node = "screen_agent" -> "human_select_interrupt"
      [] node = "human_select_interrupt" -> "tailor_agent"
      [] node = "tailor_agent" -> END

select_payload_of_jobs(s) ==
    [instruction |-> "Select top 2 job IDs or objects to tailor.",
     ranked_jobs |-> Get(s, "jobs", <<>>)]

select_payload(s) ==
    [instruction |-> "Select top 2 job IDs or objects to tailor.",
     ranked_jobs |-> Get(s, "ranked_jobs", <<>>)]

RECURSIVE ChooseByIdsUncapped(_, _, _, _)
ChooseByIdsUncapped(ranked, id_set, i, chosen) ==
    IF i > Len(ranked) THEN chosen
    ELSE ChooseByIdsUncapped(ranked, id_set, i + 1,
            IF Get(ranked[i], "id", None) \in id_set
            THEN Append(chosen, ranked[i]) ELSE chosen)

\* the loop over ranked_jobs of the id branch, from position i on
RECURSIVE ChooseByIds(_, _, _, _)
ChooseByIds(ranked, id_set, i, chosen) ==
    IF i > Len(ranked) THEN chosen
    ELSE ChooseByIds(ranked, id_set, i + 1,
            IF Get(ranked[i], "id", None) \in id_set /\ Len(chosen) < SelectCap
            THEN Append(chosen, ranked[i]) ELSE chosen)

IsStrList(sel) == sel.isList /\ sel.items # <<>> /\ sel.items[1].t = "str"
IsDictListLoose(sel) == sel.isList /\ sel.items # <<>> /\ sel.items[1].t # "str"

IsDictList(sel) == sel.isList /\ sel.items # <<>> /\ sel.items[1].t = "dict"

\* set(selection) raises TypeError when the list holds a dict
SelectionRaises(sel) ==
    IsStrList(sel) /\ \E i \in 1..Len(sel.items) : sel.items[i].t = "dict"

resolve_without_fallback(s, sel) ==
    LET ranked == Get(s, "ranked_jobs", <<>>)
        items == sel.items
    IN  IF IsStrList(sel)
        THEN ChooseByIds(ranked, {items[i].v : i \in {k \in 1..Len(items) : items[k].t = "str"}},
                         1, <<>>)
        ELSE IF IsDictList(sel)
        THEN [i \in 1..Len(Take(items, SelectCap)) |-> items[i].v]
        ELSE <<>>

resolve_falls_back_to_jobs(s, sel) ==
    LET chosen == resolve_without_fallback(s, sel)
    IN  IF chosen = <<>> THEN Take(Get(s, "jobs", <<>>), SelectCap) ELSE chosen

resolve_selection(s, sel) ==
    LET ranked == Get(s, "ranked_jobs", <<>>)
        items == sel.items
        chosen ==
            IF IsStrList(sel)
            THEN ChooseByIds(ranked, {items[i].v : i \in {k \in 1..Len(items) : items[k].t = "str"}},
                             1, <<>>)
            ELSE IF IsDictList(sel)
            THEN [i \in 1..Len(Take(items, SelectCap)) |-> items[i].v]
            ELSE <<>>
    IN  IF chosen = <<>> THEN Take(ranked, SelectCap) ELSE chosen

n_select_recomputes(s, sel) ==
    Merge(s, [selected_jobs |-> resolve_selection(s, sel)])

n_select_drops_state(s, sel) ==
    IF ~Has(s, "selected_jobs")
    THEN [selected_jobs |-> resolve_selection(s, sel)]
    ELSE s

n_select(s, sel) ==
    IF ~Has(s, "selected_jobs")
    THEN Merge(s, [selected_jobs |-> resolve_selection(s, sel)])
    ELSE s

InterruptsNever(s, sel) == FALSE

\* interrupt(payload) is reached, and raises GraphInterrupt without a resume value
Interrupts(s, sel) == ~Has(s, "selected_jobs") /\ ~sel.given

ErrorMap == [error |-> "Tailor call failed"]

\* the loop of invoke_tailor over the extracted array
RECURSIVE TailorMap(_, _, _)
TailorMap(arr, i, out) ==
    IF i > Len(arr) THEN out
    ELSE TailorMap(arr, i + 1,
            Merge(out, Get(arr[i], "id", "unknown") :> Get(arr[i], "preview", "")))

\* the tailor call fails: the executor raises, or an item of the array has no .get
TailorFails(answer) ==
    \/ answer.kind = "raise"
    \/ \E i \in 1..Len(answer.items) : answer.items[i] = Scalar

invoke_tailor_swallows(selected_jobs, answer) ==
    IF selected_jobs = <<>> \/ TailorFails(answer) THEN Empty
    ELSE TailorMap(answer.items, 1, Empty)

\* invoke_tailor: everything after the prompt is inside try/except Exception
invoke_tailor(selected_jobs, answer) ==
    IF selected_jobs = <<>> THEN Empty
    ELSE IF answer.kind = "raise" THEN ErrorMap
    ELSE IF \E i \in 1..Len(answer.items) : answer.items[i] = Scalar THEN ErrorMap
    ELSE TailorMap(answer.items, 1, Empty)

n_tailor_drops_state(s, answer) ==
    [tailored_resumes |-> invoke_tailor(Get(s, "selected_jobs", <<>>), answer)]

n_tailor(s, answer) ==
    Merge(s, [tailored_resumes |-> invoke_tailor(Get(s, "selected_jobs", <<>>), answer)])

\* ------------------------------------------------------------------- state
VARIABLES
    store,      \* MemorySaver: thread id -> checkpoint (channel values, next node, pending interrupts)
    status,     \* thread id -> how the last invoke on it ended, or "running"
    resume,     \* thread id -> the resume value of the invoke in progress
    log,        \* thread id -> the nodes entered since the last fresh invoke ("resume" marks a resumption)
    susp,       \* thread id -> the channel values when the run was last suspended
    invokes,    \* thread id -> number of fresh invokes so far
    raised,     \* thread id -> the node an exception escaped from in the last invoke
    searchOut,  \* thread id -> what the search provider did in the current run
    started,    \* thread id -> how the current run began: the status before, the fields
                \* of its input and of the input of the run before
    tailorOut,  \* thread id -> what the tailor provider did in the current run
    text,       \* the provider text last handed to the extractor
    extracted   \* what the extractor made of it

vars == <<store, status, resume, log, susp, invokes, raised, searchOut, started, tailorOut,
         text, extracted>>

Checkpoint(values, next, interrupts) ==
    [values |-> values, next |-> next, interrupts |-> interrupts]

Values(r) == store[r].values

Init ==
    /\ store = [r \in AllRunIds |-> Checkpoint(Empty, "none", <<>>)]
    /\ status = [r \in AllRunIds |-> "idle"]
    /\ resume = [r \in AllRunIds |-> NoResume]
    /\ log = [r \in AllRunIds |-> <<>>]
    /\ susp = [r \in AllRunIds |-> Empty]
    /\ invokes = [r \in AllRunIds |-> 0]
    /\ raised = [r \in AllRunIds |-> "none"]
    /\ searchOut = [r \in AllRunIds |-> "none"]
    /\ started = [r \in AllRunIds |-> [after |-> "idle", fields |-> {}, before |-> {}]]
    /\ tailorOut = [r \in AllRunIds |-> "none"]
    /\ text = <<>>
    /\ extracted = [done |-> FALSE, inner |-> Returned(<<>>), outer |-> Returned(<<>>)]

At(r, node) == status[r] = "running" /\ store[r].next = node

Enter(r, node) == log' = [log EXCEPT ![r] = Append(@, node)]

\* the input of a fresh invoke is written over the channels the thread
\* already holds; the run starts at the entry point
StartValues(old, input) == Merge(old, input)

\* graph_app.invoke(initial_state, config)
Invoke(r) ==
    /\ status[r] # "running"
    /\ invokes[r] < MaxInvokes
    /\ \E input \in InitialStates :
          /\ store' = [store EXCEPT ![r] =
                          Checkpoint(StartValues(Values(r), input), "search_agent", <<>>)]
          /\ started' = [started EXCEPT ![r] = [after |-> status[r], fields |-> DOMAIN input,
                                                       before |-> started[r].fields]]
    /\ status' = [status EXCEPT ![r] = "running"]
    /\ resume' = [resume EXCEPT ![r] = NoResume]
    /\ log' = [log EXCEPT ![r] = <<>>]
    /\ susp' = [susp EXCEPT ![r] = Empty]
    /\ invokes' = [invokes EXCEPT ![r] = @ + 1]
    /\ raised' = [raised EXCEPT ![r] = "none"]
    /\ searchOut' = [searchOut EXCEPT ![r] = "none"]
    /\ tailorOut' = [tailorOut EXCEPT ![r] = "none"]
    /\ UNCHANGED <<text, extracted>>

\* graph_app.invoke(Command(resume=value), config), as the callers do it:
\* on a thread whose last invoke returned an interrupt
Resume(r) ==
    /\ status[r] = "suspended"
    /\ \E value \in ResumeValues : resume' = [resume EXCEPT ![r] = value]
    /\ status' = [status EXCEPT ![r] = "running"]
    /\ Enter(r, "resume")
    /\ UNCHANGED <<store, susp, invokes, raised, searchOut, started, tailorOut, text, extracted>>

\* an exception leaves the node: invoke raises, the checkpoint stays as it was
Fault(r, node) ==
    /\ status' = [status EXCEPT ![r] = "fault"]
    /\ raised' = [raised EXCEPT ![r] = node]
    /\ Enter(r, node)
    /\ UNCHANGED <<store, resume, susp, invokes, started, tailorOut, text, extracted>>

StepWritesEveryThread(r, node, values, next) ==
    /\ store' = [t \in AllRunIds |-> Checkpoint(values, next, <<>>)]
    /\ Enter(r, node)
    /\ UNCHANGED <<resume, susp, invokes, raised, started, tailorOut, text, extracted>>

Step(r, node, values, next) ==
    /\ store' = [store EXCEPT ![r] = Checkpoint(values, next, <<>>)]
    /\ Enter(r, node)
    /\ UNCHANGED <<resume, susp, invokes, raised, started, tailorOut, text, extracted>>

SearchNode(r) ==
    /\ At(r, "search_agent")
    /\ \E answer \in SearchAnswers \ {Raise} :
          /\ LET s == n_search(Values(r), invoke_search(answer))
             IN  Step(r, "search_agent", s, route_from_search(s))
          /\ searchOut' = [searchOut EXCEPT ![r] =
                              IF answer.items = <<>> THEN "empty" ELSE "jobs"]
    /\ UNCHANGED status

SearchRaises(r) ==
    /\ At(r, "search_agent")
    /\ Raise \in SearchAnswers
    /\ Fault(r, "search_agent")
    /\ searchOut' = [searchOut EXCEPT ![r] = "raise"]

EnrichNode(r) ==
    /\ At(r, "enrich_node")
    /\ Step(r, "enrich_node", n_enrich(Values(r)), NextNode("enrich_node"))
    /\ UNCHANGED <<status, searchOut>>

ScreenNode(r) ==
    /\ At(r, "screen_agent")
    /\ \E answer \in ScreenAnswers \ {Raise} :
          Step(r, "screen_agent",
               n_screen(Values(r), invoke_screen(base_jobs(Values(r)), answer)),
               NextNode("screen_agent"))
    /\ UNCHANGED <<status, searchOut>>

ScreenRaises(r) ==
    /\ At(r, "screen_agent")
    /\ ScreenCalls(base_jobs(Values(r)))
    /\ Raise \in ScreenAnswers
    /\ Fault(r, "screen_agent")
    /\ UNCHANGED searchOut

\* interrupt(payload) without a resume value: the run is suspended, the
\* checkpoint keeps the node pending together with the payload
SelectInterrupt(r) ==
    /\ At(r, "human_select_interrupt")
    /\ Interrupts(Values(r), resume[r])
    /\ store' = [store EXCEPT ![r] =
                    Checkpoint(Values(r), "human_select_interrupt", <<select_payload(Values(r))>>)]
    /\ status' = [status EXCEPT ![r] = "suspended"]
    /\ susp' = [susp EXCEPT ![r] = Values(r)]
    /\ Enter(r, "human_select_interrupt")
    /\ UNCHANGED <<resume, invokes, raised, searchOut, started, tailorOut, text, extracted>>

SelectRaises(r) ==
    /\ At(r, "human_select_interrupt")
    /\ ~Interrupts(Values(r), resume[r])
    /\ ~Has(Values(r), "selected_jobs")
    /\ SelectionRaises(resume[r])
    /\ Fault(r, "human_select_interrupt")
    /\ UNCHANGED searchOut

SelectNode(r) ==
    /\ At(r, "human_select_interrupt")
    /\ ~Interrupts(Values(r), resume[r])
    /\ Has(Values(r), "selected_jobs") \/ ~SelectionRaises(resume[r])
    /\ Step(r, "human_select_interrupt", n_select(Values(r), resume[r]),
            NextNode("human_select_interrupt"))
    /\ UNCHANGED <<status, searchOut>>

TailorNode(r) ==
    /\ At(r, "tailor_agent")
    /\ \E answer \in TailorAnswers :
          /\ store' = [store EXCEPT ![r] =
                          Checkpoint(n_tailor(Values(r), answer), NextNode("tailor_agent"), <<>>)]
          /\ tailorOut' = [tailorOut EXCEPT ![r] =
                              IF Get(Values(r), "selected_jobs", <<>>) = <<>> THEN "not called"
                              ELSE IF TailorFails(answer) THEN "failed" ELSE "answered"]
    /\ status' = [status EXCEPT ![r] = "completed"]
    /\ resume' = [resume EXCEPT ![r] = NoResume]
    /\ Enter(r, "tailor_agent")
    /\ UNCHANGED <<susp, invokes, raised, searchOut, started, text, extracted>>

Next ==
    \E r \in RunIds :
        \/ Invoke(r)
        \/ Resume(r)
        \/ SearchNode(r)
        \/ SearchRaises(r)
        \/ EnrichNode(r)
        \/ ScreenNode(r)
        \/ ScreenRaises(r)
        \/ SelectInterrupt(r)
        \/ SelectRaises(r)
        \/ SelectNode(r)
        \/ TailorNode(r)

Spec == Init /\ [][Next]_vars

\* ------------------------------------------------- the extractor on a text
\* one provider text is handed to extract_json_from_markdown and, as the
\* agent's final message, to extract_agent_results
Extract ==
    /\ ~extracted.done
    /\ \E ts \in Texts :
          /\ text' = ts
          /\ extracted' = [done |-> TRUE, inner |-> extract_json_from_markdown(ts),
                           outer |-> extract_agent_results(ts)]
    /\ UNCHANGED <<store, status, resume, log, susp, invokes, raised, searchOut, started,
                   tailorOut>>

NextExtract == Extract

SpecExtract == Init /\ [][NextExtract]_vars

\* ------------------------------------------------------------ vocabulary
Range(xs) == {xs[i] : i \in 1..Len(xs)}

\* the nodes entered in the current run, without the resumption marks
RECURSIVE NodesOf(_)
NodesOf(xs) ==
    IF xs = <<>> THEN <<>>
    ELSE IF Head(xs) = "resume" THEN NodesOf(Tail(xs))
    ELSE <<Head(xs)>> \o NodesOf(Tail(xs))

\* the nodes entered since the last resumption
RECURSIVE SinceResume(_)
SinceResume(xs) ==
    IF xs = <<>> THEN <<>>
    ELSE IF xs[Len(xs)] = "resume" THEN <<>>
    ELSE Append(SinceResume(SubSeq(xs, 1, Len(xs) - 1)), xs[Len(xs)])

Count(xs, x) == Cardinality({i \in 1..Len(xs) : xs[i] = x})

PreInterruptFields ==
    {"seed_terms", "location", "resume_pdf_path", "jobs", "needs_enrichment",
     "enriched_jobs", "ranked_jobs", "shortlisted_jobs"}

\* human-select has just run to completion on a resume value
Selected(r) ==
    /\ At(r, "tailor_agent")
    /\ resume[r].given
    /\ Has(Values(r), "selected_jobs")

Ranked(r) == Get(Values(r), "ranked_jobs", <<>>)

AllIds(sel) ==
    sel.isList /\ sel.items # <<>> /\ \A i \in 1..Len(sel.items) : sel.items[i].t = "str"

IdsOf(sel) == {sel.items[i].v : i \in 1..Len(sel.items)}

RankedIds(r) == {Get(Ranked(r)[i], "id", None) : i \in 1..Len(Ranked(r))}

\* the jobs of xs whose id is in ids, in the order of xs
RECURSIVE WithIdIn(_, _)
WithIdIn(xs, ids) ==
    IF xs = <<>> THEN <<>>
    ELSE (IF Get(Head(xs), "id", None) \in ids THEN <<Head(xs)>> ELSE <<>>)
            \o WithIdIn(Tail(xs), ids)

\* --------------------------------------------------------------- claims

\* C1 (as stated): a fresh invoke that enters human-select with no resume
\* value halts there, for every initial state: the checkpoint of the thread
\* holds the current state and the payload, the result is suspended and
\* tailor has not run.
C1_HaltsForEveryInitialState ==
    [][\A r \in RunIds :
          (At(r, "human_select_interrupt") /\ ~resume[r].given /\ log'[r] # log[r])
          => /\ status'[r] = "suspended"
             /\ store'[r] = Checkpoint(Values(r), "human_select_interrupt",
                                       <<select_payload(Values(r))>>)
             /\ "tailor_agent" \notin Range(log'[r])]_vars

\* C1 (amended): a fresh invoke that enters human-select with no resume value
\* and with no selected_jobs field in the state halts there: the checkpoint
\* of the thread holds the current state and the payload, the result is
\* suspended and tailor has not run.
C1_HaltsWithoutSelection ==
    [][\A r \in RunIds :
          (/\ At(r, "human_select_interrupt")
           /\ ~resume[r].given
           /\ ~Has(Values(r), "selected_jobs")
           /\ log'[r] # log[r])
          => /\ status'[r] = "suspended"
             /\ store'[r] = Checkpoint(Values(r), "human_select_interrupt",
                                       <<select_payload(Values(r))>>)
             /\ susp'[r] = Values(r)
             /\ "tailor_agent" \notin Range(log'[r])]_vars

C1_Witness ==
    \E r \in RunIds :
        /\ status[r] = "suspended"
        /\ store[r].interrupts = <<select_payload(Values(r))>>
        /\ Len(Ranked(r)) > 1
        /\ log[r] = <<"search_agent", "screen_agent", "human_select_interrupt">>

\* C2: when a run that was suspended at human-select is resumed and
\* completes, every pre-interrupt field of the final state is present exactly
\* when it was present at suspension, with the same value, and the resume
\* invocation entered neither search nor enrich nor screen.
C2_RoundTrip ==
    \A r \in RunIds :
        (status[r] \in {"running", "completed"} /\ "resume" \in Range(log[r]))
        => /\ \A k \in PreInterruptFields :
                /\ Has(Values(r), k) <=> Has(susp[r], k)
                /\ Has(susp[r], k) => Values(r)[k] = susp[r][k]
           /\ Range(SinceResume(log[r])) \subseteq {"human_select_interrupt", "tailor_agent"}

C2_Witness ==
    \E r \in RunIds :
        /\ status[r] = "completed"
        /\ "resume" \in Range(log[r])
        /\ Has(Values(r), "enriched_jobs")
        /\ Has(Values(r), "tailored_resumes")
        /\ Values(r)["ranked_jobs"] = susp[r]["ranked_jobs"]
        /\ Len(Values(r)["ranked_jobs"]) = ScreenCap

\* C3: in every run the nodes are entered in graph order: search first, then
\* enrich only when needs_enrichment is set, then screen, then human-select
\* (entered again only by a resumption), then tailor, then nothing; search,
\* enrich, screen and tailor are entered at most once, and tailor only after
\* human-select, with selected_jobs in the state.
AllowedEdge(x, y) ==
    \/ x = "search_agent" /\ y \in {"enrich_node", "screen_agent"}
    \/ x = "enrich_node" /\ y = "screen_agent"
    \/ x = "screen_agent" /\ y = "human_select_interrupt"
    \/ x = "human_select_interrupt" /\ y \in {"human_select_interrupt", "tailor_agent"}

C3_NodeOrder ==
    \A r \in RunIds :
        LET ns == NodesOf(log[r])
        IN  /\ ns # <<>> => ns[1] = "search_agent"
            /\ \A i \in 1..(Len(ns) - 1) : AllowedEdge(ns[i], ns[i + 1])
            /\ \A n \in Nodes \ {"human_select_interrupt"} : Count(ns, n) <= 1
            /\ Count(ns, "human_select_interrupt") <= 1 + Count(log[r], "resume")
            /\ "enrich_node" \in Range(ns) => Get(Values(r), "needs_enrichment", FALSE)
            /\ "tailor_agent" \in Range(ns)
                  => /\ ns[Len(ns)] = "tailor_agent"
                     /\ "human_select_interrupt" \in Range(ns)
                     /\ Has(Values(r), "selected_jobs")

C3_Witness ==
    \E r \in RunIds :
        log[r] = <<"search_agent", "enrich_node", "screen_agent", "human_select_interrupt",
                   "resume", "human_select_interrupt", "tailor_agent">>

\* C4 (as stated): a fresh invoke, with an initial state of the three input
\* fields, on a thread whose earlier run (started the same way) has completed
\* is a new run: it
\* enters search and screen again and is suspended at human-select, on a
\* payload of the new ranked_jobs, before it can complete; the selected_jobs,
\* enriched_jobs and tailored_resumes of the state are those this run computed.
Rerun(r) ==
    /\ started[r].after = "completed"
    /\ started[r].fields = DOMAIN BaseState(None)
    /\ started[r].before = DOMAIN BaseState(None)

ComputedBy(k) ==
    CASE k = "selected_jobs" -> "resume"
      [] k = "enriched_jobs" -> "enrich_node"
      [] k = "tailored_resumes" -> "tailor_agent"

C4_RerunIsNewRun ==
    \A r \in RunIds :
        Rerun(r)
        => /\ \A k \in {"selected_jobs", "enriched_jobs", "tailored_resumes"} :
                Has(Values(r), k) => ComputedBy(k) \in Range(log[r])
           /\ "tailor_agent" \in Range(log[r]) => "resume" \in Range(log[r])
           /\ status[r] = "suspended"
                => store[r].interrupts = <<select_payload(Values(r))>>

\* C5: when human-select has run on a resume value that is a list of ids of
\* which at least one is the id of a ranked job, selected_jobs is the ranked
\* jobs whose id is in the list, in ranked order, cut to the first 2.
C5_SelectionByIds ==
    \A r \in RunIds :
        (Selected(r) /\ AllIds(resume[r]) /\ IdsOf(resume[r]) \cap RankedIds(r) # {})
        => Values(r)["selected_jobs"] = Take(WithIdIn(Ranked(r), IdsOf(resume[r])), SelectCap)

C5_Witness ==
    \E r \in RunIds :
        /\ Selected(r)
        /\ resume[r] = ListOf(<<Str("b"), Str("a")>>)
        /\ Ranked(r) = <<JobA, JobB, JobA>>
        /\ Values(r)["selected_jobs"] = <<JobA, JobB>>

\* C6: when human-select has run on a resume value that is no list, an empty
\* list, or a list whose first element is neither a string nor an object,
\* selected_jobs is the first 2 ranked jobs (all of them when fewer) and the
\* run is on its way to tailor, not failed.
Unusable(sel) ==
    \/ ~sel.isList
    \/ sel.items = <<>>
    \/ sel.items[1].t \notin {"str", "dict"}

C6_FallbackOnUnusable ==
    \A r \in RunIds :
        (/\ status[r] \in {"running", "fault"}
         /\ SinceResume(log[r]) # <<>>
         /\ "resume" \in Range(log[r])
         /\ resume[r].given
         /\ Unusable(resume[r]))
        => /\ Selected(r)
           /\ Values(r)["selected_jobs"] = Take(Ranked(r), SelectCap)

C6_Witness ==
    \E r \in RunIds :
        /\ Selected(r)
        /\ resume[r] = ListOf(<<Other, Str("a")>>)
        /\ Len(Ranked(r)) = 3
        /\ Values(r)["selected_jobs"] = Take(Ranked(r), SelectCap)

\* C7 (as stated): when human-select has run on a list of ids one of which is
\* the id of no ranked job, selected_jobs is the first 2 ranked jobs.
C7_FallbackOnAnyUnknownId ==
    \A r \in RunIds :
        (Selected(r) /\ AllIds(resume[r]) /\ ~(IdsOf(resume[r]) \subseteq RankedIds(r)))
        => Values(r)["selected_jobs"] = Take(Ranked(r), SelectCap)

\* C7 (amended): when human-select has run on a list of ids none of which is
\* the id of a ranked job, selected_jobs is the first 2 ranked jobs and the
\* run is on its way to tailor, not failed.
C7_FallbackOnNoKnownId ==
    \A r \in RunIds :
        (/\ status[r] \in {"running", "fault"}
         /\ SinceResume(log[r]) # <<>>
         /\ "resume" \in Range(log[r])
         /\ AllIds(resume[r])
         /\ IdsOf(resume[r]) \cap RankedIds(r) = {})
        => /\ Selected(r)
           /\ Values(r)["selected_jobs"] = Take(Ranked(r), SelectCap)

C7_Witness ==
    \E r \in RunIds :
        /\ Selected(r)
        /\ resume[r] = ListOf(<<Str("zz"), Str("a")>>)
        /\ Ranked(r) = <<JobB, JobB, JobB>>
        /\ Values(r)["selected_jobs"] = <<JobB, JobB>>

\* C8 (as stated): in every state, for every initial state and every resume
\* value, selected_jobs, when present, has at most 2 elements.
C8_AtMostTwoSelected ==
    \A r \in RunIds :
        Has(Values(r), "selected_jobs") => Len(Values(r)["selected_jobs"]) <= SelectCap

\* C8 (amended): in every state of a run that has been resumed, whatever the
\* resume value, selected_jobs, when present, has at most 2 elements: every
\* selected_jobs that human-select computes has at most 2.
C8_AtMostTwoChosen ==
    \A r \in RunIds :
        ("resume" \in Range(log[r]) /\ Has(Values(r), "selected_jobs"))
        => Len(Values(r)["selected_jobs"]) <= SelectCap

C8_Witness ==
    \E r \in RunIds :
        /\ status[r] = "completed"
        /\ "resume" \in Range(log[r])
        /\ Len(Ranked(r)) = ScreenCap
        /\ Len(Values(r)["selected_jobs"]) = SelectCap

\* C9 (as stated): no invoke ends in an exception that a search, screen or
\* tailor provider call raised.
C9_NoProviderFault ==
    \A r \in RunIds :
        ~(status[r] = "fault" /\ raised[r] \in {"search_agent", "screen_agent", "tailor_agent"})

\* C10 (as stated): once the search provider has been called in a run, jobs is
\* present and not empty, and it is the 3 fallback jobs when the provider
\* returned nothing or raised.
C10_FallbackComplete ==
    \A r \in RunIds :
        searchOut[r] # "none"
        => /\ "search_agent" \in Range(log[r])
           /\ status[r] # "fault" \/ raised[r] # "search_agent"
           /\ Has(Values(r), "jobs")
           /\ Values(r)["jobs"] # <<>>
           /\ searchOut[r] \in {"empty", "raise"}
                => Values(r)["jobs"] = FallbackJobs(Get(Values(r), "location", None))


\* C11: when the tailor provider call has failed (the executor raised, or an
\* item of its array could not be read as an object), the run is completed
\* and tailored_resumes is a mapping with the single key "error".
C11_TailorFailureIsErrorEntry ==
    \A r \in RunIds :
        tailorOut[r] = "failed"
        => /\ status[r] = "completed"
           /\ raised[r] = "none"
           /\ Has(Values(r), "tailored_resumes")
           /\ DOMAIN Values(r)["tailored_resumes"] = {"error"}

C11_Witness ==
    \E r \in RunIds :
        /\ tailorOut[r] = "failed"
        /\ status[r] = "completed"
        /\ Len(Values(r)["selected_jobs"]) = SelectCap
        /\ Values(r)["tailored_resumes"] = ErrorMap


\* C12: once search has run, needs_enrichment is (number of jobs > 12); the
\* node entered after search is enrich exactly when search produced more than
\* 12 jobs and screen otherwise, and enrich is entered nowhere else.
SearchDone(r) == searchOut[r] \in {"empty", "jobs"}

C12_RoutingAfterSearch ==
    \A r \in RunIds :
        SearchDone(r)
        => LET ns == NodesOf(log[r])
               many == Len(Values(r)["jobs"]) > EnrichThreshold
           IN  /\ Values(r)["needs_enrichment"] = many
               /\ store[r].next = IF Len(ns) = 1 THEN (IF many THEN "enrich_node" ELSE "screen_agent")
                                  ELSE store[r].next
               /\ Len(ns) > 1 => ns[2] = IF many THEN "enrich_node" ELSE "screen_agent"
               /\ "enrich_node" \in Range(ns) <=> (Len(ns) > 1 /\ many)

C12_Witness ==
    \E r \in RunIds :
        /\ SearchDone(r)
        /\ Len(Values(r)["jobs"]) = EnrichThreshold + 1
        /\ NodesOf(log[r]) = <<"search_agent", "enrich_node", "screen_agent">>

\* C13: in every state after screen has run, ranked_jobs has at most 10
\* elements and equals shortlisted_jobs, through suspension, resume and tailor.
ScreenDone(r) ==
    /\ "screen_agent" \in Range(log[r])
    /\ ~(status[r] = "fault" /\ raised[r] = "screen_agent")

C13_CapInvariant ==
    \A r \in RunIds :
        ScreenDone(r)
        => /\ Has(Values(r), "ranked_jobs") /\ Has(Values(r), "shortlisted_jobs")
           /\ Len(Values(r)["ranked_jobs"]) <= ScreenCap
           /\ Values(r)["ranked_jobs"] = Values(r)["shortlisted_jobs"]

C13_Witness ==
    \E r \in RunIds :
        /\ ScreenDone(r)
        /\ status[r] = "completed"
        /\ "resume" \in Range(log[r])
        /\ Values(r)["ranked_jobs"] = Take(Many(ScreenCap + 1), ScreenCap)
        /\ Values(r)["shortlisted_jobs"] = Take(Many(ScreenCap + 1), ScreenCap)

\* C14: every node returns a state that has every field of the state it was
\* given, and every field that is not an output field of the node keeps its
\* value.
OwnFields(node) ==
    CASE node = "search_agent" -> {"jobs", "needs_enrichment"}
      [] node = "enrich_node" -> {"enriched_jobs"}
      [] node = "screen_agent" -> {"ranked_jobs", "shortlisted_jobs"}
      [] node = "human_select_interrupt" -> {"selected_jobs"}
      [] node = "tailor_agent" -> {"tailored_resumes"}

NodeStep(r) == status[r] = "running" /\ log'[r] # log[r]

C14_AdditiveOnly ==
    [][\A r \in RunIds :
          NodeStep(r)
          => \A k \in DOMAIN Values(r) :
                /\ Has(store'[r].values, k)
                /\ k \notin OwnFields(store[r].next) => store'[r].values[k] = Values(r)[k]]_vars

AllFields == PreInterruptFields \cup {"selected_jobs", "tailored_resumes"}

C14_Witness ==
    \E r \in RunIds :
        /\ status[r] = "completed"
        /\ invokes[r] = 1
        /\ DOMAIN Values(r) = AllFields

\* C15: a suspended result comes from human-select only: the node pending in
\* the checkpoint and the last node entered are human-select, and the one
\* pending payload is {instruction, ranked_jobs} with the ranked_jobs of the
\* state at suspension.
C15_OnlySelectSuspends ==
    \A r \in RunIds :
        status[r] = "suspended"
        => /\ store[r].next = "human_select_interrupt"
           /\ log[r][Len(log[r])] = "human_select_interrupt"
           /\ Values(r) = susp[r]
           /\ Len(store[r].interrupts) = 1
           /\ DOMAIN store[r].interrupts[1] = {"instruction", "ranked_jobs"}
           /\ store[r].interrupts[1]["ranked_jobs"] = Values(r)["ranked_jobs"]

C15_Witness ==
    \E r \in RunIds :
        /\ status[r] = "suspended"
        /\ Len(Values(r)["jobs"]) = EnrichThreshold + 1
        /\ store[r].interrupts[1]["ranked_jobs"] = <<JobB, JobA, JobB>>


\* C19: the enrich node leaves jobs as it was and writes enriched_jobs with
\* the same length and order, each element being the job plus one
\* enriched_tag, which is "long-desc" exactly when the job has a description
\* longer than 50 and "short-desc" otherwise.
EnrichStep(r) == NodeStep(r) /\ store[r].next = "enrich_node"

C19_EnrichmentTagging ==
    [][\A r \in RunIds :
          EnrichStep(r)
          => LET jobs == Values(r)["jobs"]
                 out  == store'[r].values
             IN  /\ out["jobs"] = jobs
                 /\ Len(out["enriched_jobs"]) = Len(jobs)
                 /\ \A i \in 1..Len(jobs) :
                       LET j == jobs[i]
                           e == out["enriched_jobs"][i]
                           long == "description" \in DOMAIN j /\ j["description"] > LongDesc
                       IN  /\ DOMAIN e = DOMAIN j \cup {"enriched_tag"}
                           /\ \A k \in DOMAIN j : e[k] = j[k]
                           /\ e["enriched_tag"] = IF long THEN "long-desc" ELSE "short-desc"]_vars

C19_Witness ==
    \E r \in RunIds :
        /\ Has(Values(r), "enriched_jobs")
        /\ "enrich_node" \in Range(log[r])
        /\ LET e == Values(r)["enriched_jobs"]
           IN  /\ \E i \in 1..Len(e) : "description" \notin DOMAIN e[i] /\ e[i]["enriched_tag"] = "short-desc"
               /\ \E i \in 1..Len(e) : /\ "description" \in DOMAIN e[i]
                                       /\ e[i]["description"] = LongDesc
                                       /\ e[i]["enriched_tag"] = "short-desc"
               /\ \E i \in 1..Len(e) : /\ "description" \in DOMAIN e[i]
                                       /\ e[i]["description"] = LongDesc + 1
                                       /\ e[i]["enriched_tag"] = "long-desc"


\* ------------------------------------------------ two run ids on one store
\* Thread "A" runs once on scripted inputs; thread "B" runs once on other
\* inputs; the steps of the two interleave freely on the one MemorySaver.
Script ==
    [initial |-> BaseState("San Francisco"),
     search  |-> Answer(Many(EnrichThreshold + 1)),
     screen  |-> Answer(<<JobB, JobA>>),
     resume  |-> ListOf(<<Str("a")>>),
     tailor  |-> Answer(<<TailorItem>>)]

Scripted ==
    [initial |-> {Script.initial}, search |-> {Script.search}, screen |-> {Script.screen},
     resume |-> {Script.resume}, tailor |-> {Script.tailor}]

IsoInputs(r) ==
    IF r = "A"
    THEN Scripted
    ELSE [initial |-> {BaseState(None)},
          search  |-> {Answer(<<>>), Answer(<<JobA>>)},
          screen  |-> {Answer(<<>>), Answer(<<JobA>>)},
          resume  |-> {NotAList, ListOf(<<Str("b")>>), ListOf(<<Str("a"), Dict(JobB)>>)},
          tailor  |-> {Raise, Answer(<<>>)}]

\* the steps of thread r with their inputs taken from the sets of `inputs`
InvokeWith(r, inputs) ==
    /\ Invoke(r)
    /\ \E input \in inputs.initial : store'[r].values = StartValues(Values(r), input)

ResumeWith(r, inputs) == Resume(r) /\ resume'[r] \in inputs.resume

SearchNodeWith(r, inputs) ==
    /\ SearchNode(r)
    /\ \E answer \in inputs.search :
          /\ store'[r].values = n_search(Values(r), invoke_search(answer))
          /\ searchOut'[r] = IF answer.items = <<>> THEN "empty" ELSE "jobs"

ScreenNodeWith(r, inputs) ==
    /\ ScreenNode(r)
    /\ \E answer \in inputs.screen :
          store'[r].values = n_screen(Values(r), invoke_screen(base_jobs(Values(r)), answer))

TailorNodeWith(r, inputs) ==
    /\ TailorNode(r)
    /\ \E answer \in inputs.tailor :
          /\ store'[r].values = n_tailor(Values(r), answer)
          /\ Get(Values(r), "selected_jobs", <<>>) # <<>>
             => (tailorOut'[r] = "failed") = TailorFails(answer)

NextIso ==
    \E r \in AllRunIds :
        \/ invokes[r] = 0 /\ InvokeWith(r, IsoInputs(r))
        \/ ResumeWith(r, IsoInputs(r))
        \/ SearchNodeWith(r, IsoInputs(r))
        \/ SearchRaises(r)
        \/ EnrichNode(r)
        \/ ScreenNodeWith(r, IsoInputs(r))
        \/ ScreenRaises(r)
        \/ SelectInterrupt(r)
        \/ SelectRaises(r)
        \/ SelectNode(r)
        \/ TailorNodeWith(r, IsoInputs(r))

SpecIso == Init /\ [][NextIso]_vars

\* what the scripted run holds at its suspension and at its end when it is
\* the only run: the nodes applied in graph order to the scripted inputs
AloneSuspended ==
    LET s1 == n_search(Script.initial, invoke_search(Script.search))
        s2 == n_enrich(s1)
    IN  n_screen(s2, invoke_screen(base_jobs(s2), Script.screen))

AloneFinal == n_tailor(n_select(AloneSuspended, Script.resume), Script.tailor)

\* everything the model keeps for one thread id
Thread(r) ==
    <<store[r], status[r], resume[r], log[r], susp[r], invokes[r], raised[r],
      searchOut[r], started[r], tailorOut[r]>>

\* C17: with two run ids on one store, a step of one run leaves everything
\* kept for the other run as it was, and under every interleaving the
\* scripted run's checkpoint and payload at suspension and its final state
\* are the ones it has when it runs alone.
C17_CrossRunIsolation ==
    /\ [](/\ status["A"] = "suspended"
             => store["A"] = Checkpoint(AloneSuspended, "human_select_interrupt",
                                        <<[instruction |-> "Select top 2 job IDs or objects to tailor.",
                                           ranked_jobs |-> <<JobB, JobA>>]>>)
          /\ status["A"] = "completed" => Values("A") = AloneFinal)
    /\ [][\A r, t \in AllRunIds :
             (r # t /\ Thread(t)' # Thread(t)) => Thread(r)' = Thread(r)]_vars

C17_Witness ==
    /\ status["A"] = "completed"
    /\ Values("A") = AloneFinal
    /\ status["B"] = "completed"
    /\ Values("B") # AloneFinal
    /\ log["B"][1] = "search_agent"
    /\ \E i \in 1..Len(log["A"]) : log["A"][i] = "resume"


\* --------------------------------------------- mocked, deterministic inputs
\* Every run, on either thread id and whether the id is new or has been used
\* by a completed run, gets the same initial state, the same provider answers
\* and the same resume value.
NextMock ==
    \E r \in AllRunIds :
        \/ InvokeWith(r, Scripted)
        \/ ResumeWith(r, Scripted)
        \/ SearchNodeWith(r, Scripted)
        \/ EnrichNode(r)
        \/ ScreenNodeWith(r, Scripted)
        \/ SelectInterrupt(r)
        \/ SelectNode(r)
        \/ TailorNodeWith(r, Scripted)

SpecMock == Init /\ [][NextMock]_vars

\* C18: two completed runs on identical initial state, provider answers and
\* resume value have entered the same nodes in the same order, suspended and
\* resumed at the same place, and hold identical final states, whether the
\* run id is new or was used by an earlier completed run.
C18_Deterministic ==
    \A r, t \in AllRunIds :
        (status[r] = "completed" /\ status[t] = "completed")
        => /\ log[r] = log[t]
           /\ Values(r) = Values(t)


\* the chosen candidate is not parseable JSON
Unparseable(ts) == HasCandidate(ts) /\ json_loads(Candidate(ts)).st # "ok"

\* C20: for every text the extractor returns a sequence and does not raise;
\* when the text has no candidate, or its candidate is not parseable JSON,
\* it returns the empty sequence.
C20_ExtractorNeverRaises ==
    extracted.done
    => /\ ~extracted.inner.raised
       /\ (~HasCandidate(text) \/ Unparseable(text)) => extracted.inner.items = <<>>


\* the tokens from i to j of ts are all prose or white space
Prose(ts, i, j) == \A k \in i..j : ts[k] \in {"p", " "}

\* the tokens from i to j of ts are a JSON array
IsArray(ts, i, j) ==
    /\ i <= j
    /\ ts[i] = "["
    /\ json_loads(SubSeq(ts, i, j)).st = "ok"

\* ts is the array at i..j with nothing, or prose, before and after it
Bare(ts, i, j) == IsArray(ts, i, j) /\ Prose(ts, 1, i - 1) /\ Prose(ts, j + 1, Len(ts))

\* ts is the array at i..j inside a fenced block, labeled or not, with
\* nothing, or prose, around the block
InFence(ts, i, j) ==
    /\ IsArray(ts, i, j)
    /\ \E f \in 1..i - 1 :
          /\ ts[f] = "F"
          /\ Prose(ts, 1, f - 1)
          /\ FencedStart(ts, f) = i
    /\ \E g \in j + 1..Len(ts) :
          /\ ts[g] = "F"
          /\ SkipWs(ts, j + 1) = g
          /\ Prose(ts, g + 1, Len(ts))

\* from the first "[" to the last "]"
GreedyGroup(ts) ==
    SubSeq(ts, Min({i \in 1..Len(ts) : ts[i] \in Open}),
               CHOOSE k \in 1..Len(ts) : ts[k] = "]" /\ \A m \in k + 1..Len(ts) : ts[m] # "]")

\* C21: for every text that is a JSON array alone, between prose, or inside a
\* fenced block, the extractor returns that array; and when no fenced block
\* matches, the candidate is the substring from the first "[" to the last "]".
C21_RecoversEmbeddedArray ==
    extracted.done
    => /\ \A i, j \in 1..Len(text) :
             (Bare(text, i, j) \/ InFence(text, i, j))
             => extracted.inner = Returned(json_loads(SubSeq(text, i, j)).v.items)
       /\ (FencedMatches(text) = {} /\ BareMatches(text) # {})
             => Candidate(text) = GreedyGroup(text)


\* xs can be obtained from ys by leaving elements out
RECURSIVE IsSubseq(_, _)
IsSubseq(xs, ys) ==
    IF xs = <<>> THEN TRUE
    ELSE IF ys = <<>> THEN FALSE
    ELSE IF Head(xs) = Head(ys) THEN IsSubseq(Tail(xs), Tail(ys))
    ELSE IsSubseq(xs, Tail(ys))

\* C22: after the screen node, ranked_jobs is the list handed to the screen
\* provider (enriched_jobs, or jobs) with elements left out: every ranked job
\* is a job of that list and the relative order is the same.
C22_RankedSubsetOfBase ==
    \A r \in RunIds :
        ScreenDone(r) => IsSubseq(Values(r)["ranked_jobs"], base_jobs(Values(r)))


\* the ids of a job list, in order
JobIds(xs) == [i \in 1..Len(xs) |-> Get(xs[i], "id", None)]

\* C24: after the screen node, the list that was handed to the screen
\* provider is the jobs list of this run's search node, or an enriched_jobs
\* list that the enrich node computed from it in this run (same ids, same
\* order).
C24_ScreenBaseFromCurrentJobs ==
    \A r \in RunIds :
        ScreenDone(r)
        => LET base == base_jobs(Values(r))
               jobs == Values(r)["jobs"]
           IN  \/ base = jobs
               \/ /\ "enrich_node" \in Range(log[r])
                  /\ JobIds(base) = JobIds(jobs)


\* a non-empty list of job objects
AllDicts(sel) ==
    sel.isList /\ sel.items # <<>> /\ \A i \in 1..Len(sel.items) : sel.items[i].t = "dict"

\* C23 (as stated): when human-select has run on a list of ids or on a list
\* of job objects, every selected job is an element of ranked_jobs.
C23_SelectedSubsetOfRanked ==
    \A r \in RunIds :
        (Selected(r) /\ (AllIds(resume[r]) \/ AllDicts(resume[r])))
        => \A i \in 1..Len(Values(r)["selected_jobs"]) :
              Values(r)["selected_jobs"][i] \in Range(Ranked(r))

\* C23 (amended): when human-select has run on a resume value that is not a
\* list starting with a job object (a list of ids, or nothing usable), every
\* selected job is an element of ranked_jobs; on a list starting with a job
\* object, selected_jobs is the first 2 elements of the resume value as they
\* were given, in ranked_jobs or not.
C23_SelectedFromRankedOrGiven ==
    \A r \in RunIds :
        Selected(r)
        => LET sel == Values(r)["selected_jobs"]
               items == resume[r].items
           IN  IF IsDictList(resume[r])
               THEN /\ Len(sel) = IF Len(items) < SelectCap THEN Len(items) ELSE SelectCap
                    /\ \A i \in 1..Len(sel) : sel[i] = items[i].v
               ELSE \A i \in 1..Len(sel) : sel[i] \in Range(Ranked(r))

C23_Witness ==
    \E r \in RunIds :
        /\ Selected(r)
        /\ resume[r] = ListOf(<<Str("zz"), Str("b")>>)
        /\ Ranked(r) = <<JobA, JobB>>
        /\ Values(r)["selected_jobs"] = <<JobB>>
        /\ Len(Values(r)["jobs"]) = EnrichThreshold


\* C25: when human-select is entered on a state that has selected_jobs, it
\* returns the state unchanged and the run goes on to tailor: it is not
\* suspended, no payload is pending, no exception leaves the node, and for
\* every resume value the node would return the same state.
SelectStep(r) == NodeStep(r) /\ store[r].next = "human_select_interrupt"

C25_SelectIsNoOpOnceSelected ==
    [][\A r \in RunIds :
          (SelectStep(r) /\ Has(Values(r), "selected_jobs"))
          => /\ store'[r] = Checkpoint(Values(r), "tailor_agent", <<>>)
             /\ status'[r] = "running"
             /\ raised'[r] = "none"
             /\ \A sel \in ResumeValues :
                   /\ ~Interrupts(Values(r), sel)
                   /\ n_select(Values(r), sel) = Values(r)]_vars

C25_Witness ==
    \E r \in RunIds :
        /\ status[r] = "completed"
        /\ invokes[r] = 1
        /\ log[r] = <<"search_agent", "screen_agent", "human_select_interrupt", "tailor_agent">>
        /\ Values(r)["selected_jobs"] = <<JobA, JobB, JobA>>
        /\ Len(Ranked(r)) = MaxRanked

====
